---- MODULE Spec2Model ----
(***************************************************************************)
(* Calibration analysis core of qiskit-ignis:                              *)
(*   analysis/trigonometric.py : _freq_guess, CosinusoidalFit              *)
(*   cal_metadata.py           : CalibrationMetadata                       *)
(*                                                                         *)
(* Real numbers.  The estimator works on float64 samples.  A sample is a   *)
(* pair <<h, l>> standing for the float64 h*2^53 + l, l an integer far     *)
(* below 2^53 in size: small samples (h = 0) and samples next to +-2^53,   *)
(* where float64 holds no fraction and the rounding of np.mean decides     *)
(* the centred samples.  The sums and the quotient of np.mean are rounded  *)
(* as float64 rounds them (Round, true_divide); on small samples the       *)
(* quotient is kept exact (its rounding error is 2^-53 of the value).      *)
(* The magnitudes of the spectrum are computed from cosines tabulated to   *)
(* CosErr / CosScale; the signals on which two bins cannot be ordered      *)
(* within that error are left out of the inputs (Decided).  A quotient is  *)
(* kept as numerator and denominator.                                      *)
(***************************************************************************)
EXTENDS Integers, Sequences, FiniteSets, TLC

VARIABLES
    xvals,      \* the x samples handed to the estimator / the model
    yvals,      \* the y samples
    est,        \* outcome of the last _freq_guess call on (xvals, yvals)
    gen,        \* the generator object returned by initial_guess
    yielded,    \* the parameter vectors the generator has yielded so far
    bnds,       \* what fit_boundary returned, or NoValue
    fb,         \* what the last estimator call did at lines 33-38, if it got there
    heap,       \* Python objects with identity: caller's and record's dicts/lists
    rec,        \* the CalibrationMetadata instance's attributes, or NoValue
    ctor,       \* outcome of the constructor call
    args,       \* the arguments the constructor was called with
    exports,    \* the mappings to_dict has returned, in call order
    first,      \* field values (contents, not references) the first export returned
    last,       \* field values the latest export returned
    nops        \* number of caller modifications after construction

estVars == <<xvals, yvals, est, gen, yielded, bnds, fb>>
recVars == <<heap, rec, ctor, args, exports, first, last, nops>>
vars == <<xvals, yvals, est, gen, yielded, bnds, fb,
          heap, rec, ctor, args, exports, first, last, nops>>

NoValue == [kind |-> "none"]

(***************************************************************************)
(* Bounds on the signals.                                                  *)
(***************************************************************************)
MaxLen == 5
MaxLongLen == 15

(***************************************************************************)
(* float64 values h*2^53 + l as pairs <<h, l>>, |l| < 2^53.                 *)
(***************************************************************************)
FZero == <<0, 0>>
FNeg(p) == <<-p[1], -p[2]>>
FScale(k, p) == <<k * p[1], k * p[2]>>
\* the real sum, before rounding
FAddExact(p, q) == <<p[1] + q[1], p[2] + q[2]>>
FSign(p) ==
    IF p[1] > 0 THEN 1 ELSE IF p[1] < 0 THEN -1
    ELSE IF p[2] > 0 THEN 1 ELSE IF p[2] < 0 THEN -1 ELSE 0
FLess(p, q) == p[1] < q[1] \/ (p[1] = q[1] /\ p[2] < q[2])
FAbs(p) == IF FSign(p) < 0 THEN FNeg(p) ELSE p

\* Body applied to the value of e, which is computed once
With(e, Body(_)) == CHOOSE r \in {Body(v) : v \in {e}} : TRUE

\* the sequence with every element computed
AsTuple(s) == <<>> \o s

RECURSIVE FMaxTo(_, _)
FMaxTo(s, i) ==
    IF i = 1 THEN s[1]
    ELSE With(FMaxTo(s, i - 1),
              LAMBDA m : IF FLess(m, s[i]) THEN s[i] ELSE m)
FMax(s) == FMaxTo(s, Len(s))

RECURSIVE SumTo(_, _)
SumTo(s, i) == IF i = 0 THEN 0 ELSE SumTo(s, i - 1) + s[i]
Sum(s) == SumTo(s, Len(s))

\* floor(log2 h), 1 <= h < 64
ilog2(h) ==
    IF h < 2 THEN 0 ELSE IF h < 4 THEN 1 ELSE IF h < 8 THEN 2
    ELSE IF h < 16 THEN 3 ELSE IF h < 32 THEN 4 ELSE 5
RECURSIVE Pow2(_)
Pow2(e) == IF e = 0 THEN 1 ELSE 2 * Pow2(e - 1)

\* the spacing of float64 around h*2^53 + l, h >= 1: 2^(e-52) in the binade
\* [2^e, 2^(e+1)).  With l < 0 and h a power of two the value lies in the
\* binade below h*2^53.
ulp(h, l) ==
    IF l < 0 /\ Pow2(ilog2(h)) = h THEN Pow2(ilog2(h))
    ELSE Pow2(ilog2(h) + 1)

\* the multiple of u nearest to num/den (den, u > 0); halfway, the even
\* multiple (round-half-to-even: 2^53 is an even multiple of every u here)
RoundDiv(num, den, u) ==
    LET k == num \div (den * u)
        rem == num - k * den * u
    IN  IF 2 * rem < den * u THEN k * u
        ELSE IF 2 * rem > den * u THEN (k + 1) * u
        ELSE IF k % 2 = 0 THEN k * u ELSE (k + 1) * u

\* the float64 nearest to the real h*2^53 + l; small integers are exact
Round(p) ==
    IF p[1] = 0 THEN p
    ELSE IF p[1] > 0 THEN <<p[1], RoundDiv(p[2], 1, ulp(p[1], p[2]))>>
    ELSE <<p[1], -RoundDiv(-p[2], 1, ulp(-p[1], -p[2]))>>

\* float64 a + b
fl_add(p, q) == Round(FAddExact(p, q))

(***************************************************************************)
(* numpy / scipy operations used by _freq_guess.                           *)
(***************************************************************************)
\* acc + a[i] + ... + a[j], added one at a time from the left
RECURSIVE fold_add(_, _, _, _)
fold_add(acc, a, i, j) ==
    IF i > j THEN acc
    ELSE With(fl_add(acc, a[i]), LAMBDA sum : fold_add(sum, a, i + 1, j))

\* the j-th of numpy's 8 partial sums after b blocks of 8 elements
RECURSIVE lane(_, _, _)
lane(a, j, b) ==
    IF b = 1 THEN a[j]
    ELSE With(lane(a, j, b - 1), LAMBDA r : fl_add(r, a[8 * (b - 1) + j]))

\* numpy's summation loop for a contiguous float64 array of up to 128
\* elements: below 8 elements a running sum from 0.0; from 8 on, 8 partial
\* sums over the blocks of 8, combined pairwise, then the remaining elements
pairwise_sum(a) ==
    LET n == Len(a) IN
    IF n < 8 THEN fold_add(FZero, a, 1, n)
    ELSE LET b == n \div 8
             \* res = ((r[0] + r[1]) + (r[2] + r[3])) +
             \*       ((r[4] + r[5]) + (r[6] + r[7]))
             halve(r) == [j \in 1..(Len(r) \div 2) |->
                             fl_add(r[2 * j - 1], r[2 * j])]
         IN  With(AsTuple([j \in 1..8 |-> lane(a, j, b)]), LAMBDA r8 :
             With(AsTuple(halve(r8)), LAMBDA r4 :
             With(AsTuple(halve(r4)), LAMBDA r2 :
             With(fl_add(r2[1], r2[2]), LAMBDA res :
                  fold_add(res, a, 8 * b + 1, n)))))

\* float64 s / n for a sum s of n samples next to +-2^53: the quotient is
\* +-2^53 + l/n, rounded to the spacing 2 above 2^53 and 1 below it
true_divide(s, n) ==
    IF s[1] > 0
    THEN <<s[1] \div n, RoundDiv(s[2], n, IF s[2] >= 0 THEN 2 ELSE 1)>>
    ELSE <<-((-s[1]) \div n), -RoundDiv(-s[2], n, IF s[2] <= 0 THEN 2 ELSE 1)>>

\* np.mean(y) = np.add.reduce(y) / len(y), as num/den
np_mean(y) ==
    With(pairwise_sum(y), LAMBDA sum :
    With(fl_add(FZero, sum), LAMBDA s :
         IF s[1] = 0 THEN [num |-> s, den |-> Len(y)]
         ELSE [num |-> true_divide(s, Len(y)), den |-> 1]))

\* yvals - np.mean(yvals), times the denominator of the mean: the
\* differences are small integers, exact in float64
Centred(y) ==
    With(np_mean(y), LAMBDA m :
         AsTuple([j \in 1..Len(y) |->
                     FAddExact(FScale(m.den, y[j]), FNeg(m.num))[2]]))

\* cos in fixed point: values are multiples of 1/CosScale
CosScale == 10000
TwoPiFixed == 62832
CosTerms == 6
\* largest error of a tabulated cosine that is not exact, in 1/CosScale
CosErr == 2

\* 1 - Y/((2i-1)(2i)) * (1 - Y/((2i+1)(2i+2)) * (...)), Y the squared angle:
\* the Taylor polynomial of cos by Horner's rule
RECURSIVE cos_taylor(_, _)
cos_taylor(Y, i) ==
    IF i > CosTerms THEN CosScale
    ELSE CosScale
         - (Y * cos_taylor(Y, i + 1)) \div ((2 * i - 1) * (2 * i) * CosScale)

\* cos(2*pi*p/q) for 0 <= 4p <= q
cos_octant_exact(p, q) == p = 0 \/ 4 * p = q \/ 6 * p = q
cos_octant(p, q) ==
    IF p = 0 THEN CosScale
    ELSE IF 4 * p = q THEN 0
    ELSE IF 6 * p = q THEN CosScale \div 2
    ELSE LET X == (TwoPiFixed * p) \div q
         IN  cos_taylor((X * X) \div CosScale, 1)

\* cos(2*pi*t/n), by cos(2pi - a) = cos(a) and cos(a) = -cos(pi - a)
cos_turn(t, n) ==
    LET r0 == t % n
        r == IF 2 * r0 > n THEN n - r0 ELSE r0
    IN  IF 4 * r <= n THEN cos_octant(r, n)
        ELSE -cos_octant(n - 2 * r, 2 * n)
cos_turn_exact(t, n) ==
    LET r0 == t % n
        r == IF 2 * r0 > n THEN n - r0 ELSE r0
    IN  IF 4 * r <= n THEN cos_octant_exact(r, n)
        ELSE cos_octant_exact(n - 2 * r, 2 * n)

\* the cosines np.fft.fft multiplies by, for every signal length in use:
\* CosTable[n][t + 1] = cos(2*pi*t/n) * CosScale
MaxSignalLen == IF MaxLen > MaxLongLen THEN MaxLen ELSE MaxLongLen
CosTable ==
    [n \in 1..MaxSignalLen |-> [t \in 1..n |-> cos_turn(t - 1, n)]]
CosExact ==
    [n \in 1..MaxSignalLen |-> [t \in 1..n |-> cos_turn_exact(t - 1, n)]]

\* sum_j z[j] * z[j + d], indices taken modulo len(z), for d = 0 .. len - 1
autocorr(z) ==
    LET n == Len(z) IN
    AsTuple([i \in 1..n |->
                Sum([j \in 1..n |-> z[j] * z[((j + i - 2) % n) + 1]])])

\* np.abs(np.fft.fft(z))[k]**2, k counted from 0, times CosScale, from the
\* autocorrelation r of z:
\*   |F_k|^2 = sum_{a,b} z_a z_b cos(2 pi k (a-b) / n)
\*           = sum_d r_d cos(2 pi k d / n)
fft_power(r, k) ==
    LET n == Len(r) IN
    Sum([i \in 1..n |-> r[i] * CosTable[n][((k * (i - 1)) % n) + 1]])

\* bound on the distance of fft_power(r, k) from the real value
fft_power_err(r, k) ==
    LET n == Len(r)
        mag(v) == IF v < 0 THEN -v ELSE v
    IN  Sum([i \in 1..n |->
                IF CosExact[n][((k * (i - 1)) % n) + 1] THEN 0
                ELSE CosErr * mag(r[i])])

\* np.argmax over bins 0 .. m-1: the first bin holding the maximum
RECURSIVE argmax_to(_, _)
argmax_to(p, i) ==
    IF i = 1 THEN 1
    ELSE With(argmax_to(p, i - 1), LAMBDA j : IF p[j] < p[i] THEN i ELSE j)
argmax(p) == argmax_to(p, Len(p)) - 1

\* np.fft.fftfreq(n, d)[k] = fftfreq_num(n, k) / (d * n)
fftfreq_num(n, k) == IF k <= (n - 1) \div 2 THEN k ELSE k - n

\* np.convolve(y, [0.5, 0.5], mode='same'), times 2:
\* out[0] = y[0], out[i] = y[i-1] + y[i].  Halves and sums of two samples of
\* one signal are exact in float64.
convolve_same(y) ==
    AsTuple([i \in 1..Len(y) |->
                IF i = 1 THEN y[1] ELSE FAddExact(y[i - 1], y[i])])

Clip(i, n) == IF i < 1 THEN 1 ELSE IF i > n THEN n ELSE i

\* mutant: the comparator is np.less_equal
IsRelMin_less_equal(s, i, order) ==
    \A sh \in 1..order :
        /\ ~FLess(s[Clip(i + sh, Len(s))], s[i])
        /\ ~FLess(s[Clip(i - sh, Len(s))], s[i])

\* scipy.signal.argrelmin(data, order=order) for order >= 1 (mode='clip',
\* comparator np.less): the 1-based indices, in increasing order, of the
\* points strictly below every point at distance 1..order, indices clipped
\* to the array (so neither end point ever qualifies).
IsRelMin(s, i, order) ==
    \A sh \in 1..order :
        /\ FLess(s[i], s[Clip(i + sh, Len(s))])
        /\ FLess(s[i], s[Clip(i - sh, Len(s))])

RECURSIVE argrelmin_to(_, _, _)
argrelmin_to(s, order, i) ==
    IF i = 0 THEN <<>>
    ELSE IF IsRelMin(s, i, order)
         THEN Append(argrelmin_to(s, order, i - 1), i)
         ELSE argrelmin_to(s, order, i - 1)
argrelmin(s, order) == argrelmin_to(s, order, Len(s))

(***************************************************************************)
(* Outcomes of a call: a quotient num/den (den > 0), +infinity (numpy's     *)
(* 1/0.0), or a raised exception.                                          *)
(***************************************************************************)
Val(num, den) == [kind |-> "num", num |-> num, den |-> den, exc |-> ""]
Inf == [kind |-> "inf", num |-> 1, den |-> 0, exc |-> ""]
Raised(e) == [kind |-> "raise", num |-> 0, den |-> 0, exc |-> e]

\* mutant: the sign of the quotient is lost (-1/(2x) for 1/(2x))
Reciprocal_negated(v) ==
    IF v = 0 THEN Inf
    ELSE IF v > 0 THEN Val(-1, v) ELSE Val(1, -v)

\* 1 / v for an integer v, as numpy float division computes it
Reciprocal(v) ==
    IF v = 0 THEN Inf
    ELSE IF v > 0 THEN Val(1, v) ELSE Val(-1, -v)

\* lines 33-38: the time-domain fallback
fallback_order(x) == Len(x) \div 4
fallback_peaks(y, order) ==
    With(convolve_same(y), LAMBDA smoothed : argrelmin(smoothed, order))
fallback(x, y) ==
    LET order == fallback_order(x) IN
    IF order < 1 THEN Raised("ValueError")      \* scipy: 'Order must be an int >= 1'
    ELSE With(fallback_peaks(y, order), LAMBDA peaks :
              IF Len(peaks) = 0 \/ Len(peaks) > 4 THEN Val(0, 1)
              ELSE Reciprocal(2 * x[peaks[1]]))

\* np.abs(fft_data[0:len // 2]) ** 2, times CosScale
half_spectrum(y) ==
    With(Centred(y), LAMBDA z :
    With(autocorr(z), LAMBDA r :
         AsTuple([k \in 1..(Len(y) \div 2) |-> fft_power(r, k - 1)])))
half_spectrum_err(y) ==
    With(Centred(y), LAMBDA z :
    With(autocorr(z), LAMBDA r :
         AsTuple([k \in 1..(Len(y) \div 2) |-> fft_power_err(r, k - 1)])))

\* line 29: the index (0-based) np.argmax gives
spectral_bin(y) == With(half_spectrum(y), LAMBDA p : argmax(p))

\* the index np.argmax gives does not hang on rounding inside the transform:
\* the largest magnitude is above every other by more than the error of the
\* tabulated cosines; or the signal has at most 4 samples (one bin is
\* searched for 2 and 3 samples; for 4 the transform multiplies by 0, 1, -1
\* only and is exact on these samples, and argmax takes the first of equal
\* magnitudes); or the centred samples are all 0 (every bin is 0.0).
Decided(y) ==
    \/ Len(y) <= 4
    \/ With(Centred(y), LAMBDA z : \A j \in 1..Len(y) : z[j] = 0)
    \/ With(half_spectrum(y), LAMBDA p :
        With(half_spectrum_err(y), LAMBDA e :
        With(argmax(p) + 1, LAMBDA b :
             \A k \in 1..Len(p) : k = b \/ p[k] + e[k] < p[b] - e[b])))

\* lines 26-31: |fft_freq[k]| * d * n, and whether line 31 enters the
\* fallback
f0_guess_num(n, k) ==
    IF fftfreq_num(n, k) < 0 THEN -fftfreq_num(n, k) ELSE fftfreq_num(n, k)
takes_fallback(y) == f0_guess_num(Len(y), spectral_bin(y)) = 0

\* lines 21-40
_freq_guess(x, y) ==
    With(f0_guess_num(Len(x), spectral_bin(y)), LAMBDA f0_guess :
         IF f0_guess = 0 THEN fallback(x, y)
         ELSE Val(f0_guess, (x[2] - x[1]) * Len(x)))

\* what lines 33-38 computed in the call: the minima found (none when
\* argrelmin raised) and the outcome; NoValue when line 31 skipped them
fallback_trace(x, y) ==
    IF takes_fallback(y)
    THEN [kind |-> "fb",
          peaks |-> IF fallback_order(x) < 1 THEN <<>>
                    ELSE fallback_peaks(y, fallback_order(x)),
          result |-> fallback(x, y)]
    ELSE NoValue

(***************************************************************************)
(* CosinusoidalFit: parameter vectors and bounds.  A component is an       *)
(* extended real: -inf, +inf, a quotient num/den, a multiple num/den of    *)
(* pi, or a float64 pair over an integer denominator.                      *)
(***************************************************************************)
NegInf == [kind |-> "-inf"]
PiTimes(num, den) == [kind |-> "pi", num |-> num, den |-> den]
FVal(p, den) == [kind |-> "f64", fnum |-> p, den |-> den]

\* a <= b on extended reals of comparable kinds
Leq(a, b) ==
    IF a.kind = "-inf" \/ b.kind = "inf" THEN TRUE
    ELSE IF a.kind = "inf" \/ b.kind = "-inf" THEN FALSE
    ELSE IF a.kind = "f64" /\ b.kind = "f64"
         THEN FSign(FAddExact(FScale(b.den, a.fnum),
                              FNeg(FScale(a.den, b.fnum)))) <= 0
    ELSE IF a.kind = b.kind /\ a.kind \in {"num", "pi"}
         THEN a.num * b.den <= b.num * a.den
    ELSE CHOOSE c \in {} : TRUE

\* line 50: np.mean(yvals)
mean(y) == With(np_mean(y), LAMBDA m : FVal(m.num, m.den))

\* line 51: np.max(np.abs(yvals)) - np.abs(y_mean); the difference is a
\* small number, exact in float64
amplitude_guess(y) ==
    With(np_mean(y), LAMBDA m :
    With(FMax([j \in 1..Len(y) |-> FAbs(y[j])]), LAMBDA maxabs :
         FVal(FAddExact(FScale(m.den, maxabs), FNeg(FAbs(m.num))), m.den)))

\* mutant: the estimate is passed on without the floor at 0
max0_unclamped(f) == f

\* Python max(0, f): f when f > 0, else the first argument 0
max0(f) ==
    IF f.kind = "inf" THEN f
    ELSE IF f.num > 0 THEN f ELSE Val(0, 1)

\* np.linspace(start, stop, num)[i] for start = -pi, stop = pi (in units of
\* pi): start + i * (stop - start) / (num - 1), i counted from 0
NumPhases == 10
linspace(start, stop, num, i) ==
    PiTimes(start * (num - 1) + i * (stop - start), num - 1)
phase(i) == linspace(-1, 1, NumPhases, i)

\* line 55: the vector yielded for the i-th phase (i from 0)
guess_vector(g, i) == <<g.a0, g.f0, phase(i), g.y_mean>>

\* lines 60-64
fit_boundary(x, y) ==
    << <<NegInf, Inf>>, <<Val(0, 1), Inf>>,
       <<PiTimes(-1, 1), PiTimes(1, 1)>>, <<NegInf, Inf>> >>

(***************************************************************************)
(* Inputs.                                                                 *)
(***************************************************************************)
\* the samples of one signal: 0 and 2; -2^53 and -2^53 + 2; 2^53 - 2 and
\* 2^53 (neighbours in float64 on both sides)
YFamilies == { {<<0, 0>>, <<0, 2>>},
               {<<-1, 0>>, <<-1, 2>>},
               {<<1, -2>>, <<1, 0>>} }
\* the samples of the long signals
LongYVals == {<<-1, 0>>, <<-1, 2>>}
\* a long signal holds every value for two consecutive samples, from the
\* first sample on (s = 0) or from the second (s = 1)
HeldSignal(b, n, s) == [j \in 1..n |-> b[(j + s + 1) \div 2]]
LongSignals(n) ==
    {HeldSignal(b, n, s) : b \in [1..((n + 2) \div 2) -> LongYVals],
                           s \in {0, 1}}
\* <<x[0], step>>: a grid with negative samples, and two from the origin
XGrids == {<<-3, 1>>, <<0, 1>>, <<0, 2>>}
LongXGrid == <<-3, 1>>
Grid(n, x0, d) == [i \in 1..n |-> x0 + (i - 1) * d]

\* the Calibration Record component is not in use
NoRecord ==
    /\ heap = <<>>
    /\ rec = NoValue
    /\ ctor = "idle"
    /\ args = NoValue
    /\ exports = <<>>
    /\ first = <<>>
    /\ last = <<>>
    /\ nops = 0

\* no call has been made yet
NoCall ==
    /\ est = NoValue
    /\ gen = NoValue
    /\ yielded = <<>>
    /\ bnds = NoValue
    /\ fb = NoValue

Init ==
    /\ \E n \in 2..MaxLen, g \in XGrids, fam \in YFamilies :
          /\ xvals = Grid(n, g[1], g[2])
          /\ yvals \in {y \in [1..n -> fam] : Decided(y)}
    /\ NoCall
    /\ NoRecord

\* a direct call of the estimator on the samples
CallFreqGuess ==
    /\ est = NoValue
    /\ est' = _freq_guess(xvals, yvals)
    /\ fb' = fallback_trace(xvals, yvals)
    /\ UNCHANGED <<xvals, yvals, gen, yielded, bnds, recVars>>

\* initial_guess(xvals, yvals): returns a generator; no line of the body
\* has run yet
CallInitialGuess ==
    /\ gen = NoValue
    /\ gen' = [kind |-> "gen", pc |-> "created", calls |-> 0, i |-> 0]
    /\ UNCHANGED <<xvals, yvals, est, yielded, bnds, fb, recVars>>

\* first next(): lines 50-52, then the first pass through line 55, or the
\* estimator's exception leaving the generator
GenStart ==
    /\ gen.kind = "gen" /\ gen.pc = "created"
    /\ LET f == _freq_guess(xvals, yvals) IN
       /\ est' = f
       /\ fb' = fallback_trace(xvals, yvals)
       /\ IF f.kind = "raise"
          THEN /\ gen' = [gen EXCEPT !.pc = "raised", !.calls = @ + 1]
               /\ UNCHANGED yielded
          ELSE LET g == [kind |-> "gen", pc |-> "suspended",
                         calls |-> gen.calls + 1, i |-> 1,
                         y_mean |-> mean(yvals),
                         a0 |-> amplitude_guess(yvals),
                         f0 |-> max0(f)]
               IN  /\ gen' = g
                   /\ yielded' = Append(yielded, guess_vector(g, 0))
    /\ UNCHANGED <<xvals, yvals, bnds, recVars>>

\* a later next() while phases remain: the next pass through line 55
GenYield ==
    /\ gen.kind = "gen" /\ gen.pc = "suspended" /\ gen.i < NumPhases
    /\ yielded' = Append(yielded, guess_vector(gen, gen.i))
    /\ gen' = [gen EXCEPT !.i = @ + 1]
    /\ UNCHANGED <<xvals, yvals, est, bnds, fb, recVars>>

\* next() after the last phase: the loop ends, the generator is exhausted
GenStop ==
    /\ gen.kind = "gen" /\ gen.pc = "suspended" /\ gen.i = NumPhases
    /\ gen' = [gen EXCEPT !.pc = "done"]
    /\ UNCHANGED <<xvals, yvals, est, yielded, bnds, fb, recVars>>

\* fit_boundary(xvals, yvals).  It reads nothing but its arguments; the
\* caller asks for the bounds once the generator has ended.
CallFitBoundary ==
    /\ bnds = NoValue
    /\ gen.kind = "gen" /\ gen.pc \in {"done", "raised"}
    /\ bnds' = [kind |-> "bounds", b |-> fit_boundary(xvals, yvals)]
    /\ UNCHANGED <<xvals, yvals, est, gen, yielded, fb, recVars>>

Next ==
    \/ CallFreqGuess
    \/ CallInitialGuess
    \/ GenStart
    \/ GenYield
    \/ GenStop
    \/ CallFitBoundary

Spec == Init /\ [][Next]_vars

\* long signals: the estimator is called on signals of more than MaxLen and
\* up to MaxLongLen samples
InitLong ==
    /\ \E n \in (MaxLen + 1)..MaxLongLen :
          /\ xvals = Grid(n, LongXGrid[1], LongXGrid[2])
          /\ yvals \in {y \in LongSignals(n) : Decided(y)}
    /\ NoCall
    /\ NoRecord

NextLong == CallFreqGuess

SpecLong == InitLong /\ [][NextLong]_vars

(***************************************************************************)
(* CalibrationMetadata (cal_metadata.py).                                  *)
(*                                                                         *)
(* Python values: None, str (its characters), int, and references to the   *)
(* mutable objects of the heap (dicts and lists have identity: the record  *)
(* stores, and to_dict returns, references, not copies).  A dict's items   *)
(* are kept in insertion order as <<key, value>> pairs.                    *)
(***************************************************************************)
PyNone == [t |-> "None"]
PyStr(chars) == [t |-> "str", s |-> chars]
PyInt(v) == [t |-> "int", v |-> v]
PyRef(id) == [t |-> "ref", id |-> id]
\* no instance attribute of that name: lookup reaches the class attribute
Unset == [t |-> "unset"]

\* Strings are sequences of ASCII characters.
Digits == <<"0", "1", "2", "3", "4", "5", "6", "7", "8", "9">>
IsDigit(c) == \E i \in 1..10 : Digits[i] = c
DigitVal(c) == (CHOOSE i \in 1..10 : Digits[i] = c) - 1
\* the characters int() skips around the literal: 0x09 to 0x0d and the space
VerticalTab == ""      \* the character 0x0b
Whitespace == {" ", "\t", "\n", VerticalTab, "\f", "\r"}

\* the string without its leading and trailing whitespace
RECURSIVE lstrip(_)
lstrip(cs) ==
    IF Len(cs) > 0 /\ cs[1] \in Whitespace THEN lstrip(Tail(cs)) ELSE cs
RECURSIVE rstrip(_)
rstrip(cs) ==
    IF Len(cs) > 0 /\ cs[Len(cs)] \in Whitespace
    THEN rstrip(SubSeq(cs, 1, Len(cs) - 1))
    ELSE cs
strip(cs) == rstrip(lstrip(cs))

\* the digit part of an integer literal: digits, with single underscores
\* allowed between two digits
IsDigitPart(cs) ==
    /\ Len(cs) > 0
    /\ IsDigit(cs[1]) /\ IsDigit(cs[Len(cs)])
    /\ \A i \in 1..Len(cs) :
          \/ IsDigit(cs[i])
          \/ cs[i] = "_" /\ IsDigit(cs[i - 1]) /\ IsDigit(cs[i + 1])

\* the value of the first i characters of a digit part (underscores skipped)
RECURSIVE ParseDigits(_, _)
ParseDigits(cs, i) ==
    IF i = 0 THEN 0
    ELSE IF cs[i] = "_" THEN ParseDigits(cs, i - 1)
    ELSE 10 * ParseDigits(cs, i - 1) + DigitVal(cs[i])

\* mutant: what cannot be parsed becomes 0 instead of raising
int_lenient(p) ==
    IF p.t = "int" THEN [ok |-> TRUE, v |-> p.v]
    ELSE IF p.t = "str" /\ IsDigitPart(strip(p.s))
    THEN [ok |-> TRUE, v |-> ParseDigits(strip(p.s), Len(strip(p.s)))]
    ELSE [ok |-> TRUE, v |-> 0]

\* Python int(p) in base 10: an int is itself; a str is stripped of
\* surrounding whitespace and read as [sign] digit part; everything else
\* raises.  [ok |-> FALSE] stands for the ValueError / TypeError.
int(p) ==
    IF p.t = "int" THEN [ok |-> TRUE, v |-> p.v]
    ELSE IF p.t = "str" THEN
        LET cs == strip(p.s)
            signed == Len(cs) > 0 /\ cs[1] \in {"-", "+"}
            body == IF signed THEN Tail(cs) ELSE cs
        IN  IF IsDigitPart(body)
            THEN [ok |-> TRUE,
                  v |-> (IF signed /\ cs[1] = "-" THEN -1 ELSE 1)
                        * ParseDigits(body, Len(body))]
            ELSE [ok |-> FALSE, v |-> 0]
    ELSE [ok |-> FALSE, v |-> 0]

\* mutant: d.setdefault(k, v) -- an existing key keeps its value
dict_set_keep_first(items, k, v) ==
    IF \E i \in 1..Len(items) : items[i][1] = k
    THEN items
    ELSE Append(items, <<k, v>>)

\* d[k] = v on an insertion-ordered dict
dict_set(items, k, v) ==
    IF \E i \in 1..Len(items) : items[i][1] = k
    THEN [i \in 1..Len(items) |->
             IF items[i][1] = k THEN <<items[i][1], v>> ELSE items[i]]
    ELSE Append(items, <<k, v>>)

\* lines 56-57 after the first i items of the argument: the dict built so
\* far, or the exception int() raised
RECURSIVE coerce_items(_, _)
coerce_items(items, i) ==
    IF i = 0 THEN [raised |-> FALSE, d |-> <<>>]
    ELSE LET prev == coerce_items(items, i - 1)
             v == int(items[i][2])
             k == int(items[i][1])
         IN  IF prev.raised \/ ~v.ok \/ ~k.ok
             THEN [raised |-> TRUE, d |-> prev.d]
             ELSE [raised |-> FALSE,
                   d |-> dict_set(prev.d, PyInt(k.v), PyInt(v.v))]

\* `if register_map:` -- None and the empty dict are false
truthy(v, h) == v.t = "ref" /\ Len(h[v.id].items) > 0

\* heap places: the caller's x_values dict, qubits list and register_map
\* dict, and the dict the constructor creates at line 55
XValuesId == 1
QubitsId == 2
RegisterMapArgId == 3
OwnMapId == 4

\* lines 39-57.  a: the arguments; h: the heap.  Gives the instance and the
\* heap after the call, or raised = TRUE when the exception leaves __init__
\* (the caller then holds no instance).
CalibrationMetadata_init(h, a) ==
    LET base == [name |-> a.name,
                 pulse_schedule_name |-> a.pulse_schedule_name,
                 x_values |-> a.x_values,
                 series |-> a.series,
                 exp_id |-> a.exp_id,
                 qubits |-> a.qubits,
                 register_map |-> Unset]
    IN  IF truthy(a.register_map, h)
        THEN LET items == h[a.register_map.id].items
                 r == coerce_items(items, Len(items))
             IN  IF r.raised
                 THEN [raised |-> TRUE, inst |-> NoValue, heap |-> h]
                 ELSE [raised |-> FALSE,
                       inst |-> [base EXCEPT !.register_map = PyRef(OwnMapId)],
                       heap |-> [h EXCEPT ![OwnMapId] =
                                    [type |-> "dict", items |-> r.d]]]
        ELSE [raised |-> FALSE, inst |-> base, heap |-> h]

\* attribute lookup: the instance attribute, else the class attribute
\* (lines 15-37: every class attribute is None)
getattr(r, f) == IF r[f] = Unset THEN PyNone ELSE r[f]

\* mutant: the keys in declaration order (pulse_schedule_name second)
to_dict_declaration_order(r) ==
    << <<"name", getattr(r, "name")>>,
       <<"pulse_schedule_name", getattr(r, "pulse_schedule_name")>>,
       <<"x_values", getattr(r, "x_values")>>,
       <<"series", getattr(r, "series")>>,
       <<"exp_id", getattr(r, "exp_id")>>,
       <<"qubits", getattr(r, "qubits")>>,
       <<"register_map", getattr(r, "register_map")>> >>

\* lines 59-69
to_dict(r) ==
    << <<"name", getattr(r, "name")>>,
       <<"series", getattr(r, "series")>>,
       <<"x_values", getattr(r, "x_values")>>,
       <<"pulse_schedule_name", getattr(r, "pulse_schedule_name")>>,
       <<"exp_id", getattr(r, "exp_id")>>,
       <<"qubits", getattr(r, "qubits")>>,
       <<"register_map", getattr(r, "register_map")>> >>

\* what a reader of mapping m sees: references followed to the contents
Deep(m, h) ==
    [i \in 1..Len(m) |->
        <<m[i][1],
          IF m[i][2].t = "ref"
          THEN [t |-> "obj", items |-> h[m[i][2].id].items]
          ELSE m[i][2]>>]

(***************************************************************************)
(* The caller of the record.                                               *)
(***************************************************************************)
MaxMapLen == 2
MaxExports == 2
MaxOps == 1
\* keys 0, '0', '1', ' 1\v' (space, 1, vertical tab), 'a'; values '1_3', 5,
\* 'x'
RegKeys == {PyInt(0), PyStr(<<"0">>), PyStr(<<"1">>),
            PyStr(<<" ", "1", VerticalTab>>), PyStr(<<"a">>)}
RegVals == {PyStr(<<"1", "_", "3">>), PyInt(5), PyStr(<<"x">>)}
RegEntries == RegKeys \X RegVals
\* dicts of at most MaxMapLen items (keys distinct as Python compares them)
RegMaps ==
    UNION {{m \in [1..l -> RegEntries] :
               \A i, j \in 1..l : i # j => m[i][1] # m[j][1]} : l \in 0..MaxMapLen}
AliasRegMaps == {<<>>, << <<PyStr(<<"0">>), PyStr(<<"1", "_", "3">>)>> >>}

CallerHeap(rm) ==
    [id \in 1..4 |->
        IF id = XValuesId
        THEN [type |-> "dict", items |-> << <<PyStr(<<"a">>), PyInt(1)>> >>]
        ELSE IF id = QubitsId
        THEN [type |-> "list", items |-> <<PyInt(0), PyInt(1)>>]
        ELSE IF id = RegisterMapArgId
        THEN [type |-> "dict", items |-> rm]
        ELSE [type |-> "free", items |-> <<>>]]

\* the estimator and the model are not in use
NoSignal ==
    /\ xvals = <<>>
    /\ yvals = <<>>
    /\ NoCall

RecordStart(maps) ==
    /\ NoSignal
    /\ heap \in {CallerHeap(rm) : rm \in maps}
    /\ rec = NoValue
    /\ ctor = "idle"
    /\ args = NoValue
    /\ exports = <<>>
    /\ first = <<>>
    /\ last = <<>>
    /\ nops = 0

InitRecord == RecordStart(RegMaps)
InitAlias == RecordStart(AliasRegMaps)

\* CalibrationMetadata(name=..., ..., register_map=...): every argument is
\* optional
Construct ==
    /\ ctor = "idle"
    /\ \E nm \in {PyNone, PyStr(<<"r">>)}, ps \in {PyNone, PyStr(<<"p">>)},
          xv \in {PyNone, PyRef(XValuesId)}, se \in {PyNone, PyStr(<<"X">>)},
          ei \in {PyNone, PyStr(<<"e">>)}, qb \in {PyNone, PyRef(QubitsId)},
          rm \in {PyNone, PyRef(RegisterMapArgId)} :
          LET a == [name |-> nm, pulse_schedule_name |-> ps, x_values |-> xv,
                    series |-> se, exp_id |-> ei, qubits |-> qb,
                    register_map |-> rm,
                    register_map_items |->
                        IF rm = PyNone THEN <<>> ELSE heap[rm.id].items]
              r == CalibrationMetadata_init(heap, a)
          IN  /\ args' = a
              /\ ctor' = IF r.raised THEN "raised" ELSE "ok"
              /\ rec' = r.inst
              /\ heap' = r.heap
    /\ UNCHANGED <<exports, first, last, nops>>
    /\ UNCHANGED estVars

\* record.to_dict()
Export ==
    /\ ctor = "ok"
    /\ Len(exports) < MaxExports
    /\ LET d == to_dict(rec) IN
       /\ exports' = Append(exports, d)
       /\ last' = Deep(d, heap)
       /\ first' = IF first = <<>> THEN Deep(d, heap) ELSE first
    /\ UNCHANGED <<heap, rec, ctor, args, nops>>
    /\ UNCHANGED estVars

Changed == PyStr(<<"z">>)
\* the caller adds an element to a dict or a list it holds a reference to
Touch(obj) ==
    IF obj.type = "list"
    THEN [obj EXCEPT !.items = Append(@, PyInt(7))]
    ELSE [obj EXCEPT !.items = dict_set(@, PyInt(7), PyInt(7))]

\* record.<field> = value: the dataclass is not frozen
AssignField ==
    /\ ctor = "ok" /\ nops < MaxOps
    /\ \E f \in {"name", "series", "x_values", "pulse_schedule_name",
                 "exp_id", "qubits", "register_map"} :
          rec' = [rec EXCEPT ![f] = Changed]
    /\ nops' = nops + 1
    /\ UNCHANGED <<heap, ctor, args, exports, first, last>>
    /\ UNCHANGED estVars

\* the caller modifies an object it passed to the constructor
ModifyArgument ==
    /\ ctor = "ok" /\ nops < MaxOps
    /\ \E id \in {XValuesId, QubitsId, RegisterMapArgId} :
          heap' = [heap EXCEPT ![id] = Touch(@)]
    /\ nops' = nops + 1
    /\ UNCHANGED <<rec, ctor, args, exports, first, last>>
    /\ UNCHANGED estVars

\* the caller assigns to a key of a mapping to_dict returned
ModifyExported ==
    /\ ctor = "ok" /\ nops < MaxOps
    /\ \E i \in 1..Len(exports), j \in 1..7 :
          exports' = [exports EXCEPT ![i][j] = <<@[1], Changed>>]
    /\ nops' = nops + 1
    /\ UNCHANGED <<heap, rec, ctor, args, first, last>>
    /\ UNCHANGED estVars

\* the caller modifies a dict or list found inside a mapping to_dict returned
ModifyNested ==
    /\ ctor = "ok" /\ nops < MaxOps
    /\ \E i \in 1..Len(exports), j \in 1..7 :
          /\ exports[i][j][2].t = "ref"
          /\ heap' = [heap EXCEPT ![exports[i][j][2].id] = Touch(@)]
    /\ nops' = nops + 1
    /\ UNCHANGED <<rec, ctor, args, exports, first, last>>
    /\ UNCHANGED estVars

NextRecord ==
    \/ Construct
    \/ Export

SpecRecord == InitRecord /\ [][NextRecord]_vars

NextAlias ==
    \/ Construct
    \/ Export
    \/ AssignField
    \/ ModifyArgument
    \/ ModifyExported
    \/ ModifyNested

SpecAlias == InitAlias /\ [][NextAlias]_vars

(***************************************************************************)
(* Properties of the estimator and of the model (Spec, SpecLong).          *)
(***************************************************************************)
IsConstant(y) == \A j \in 1..Len(y) : y[j] = y[1]
Returned(r) == r.kind \in {"num", "inf"}

\* C1: for every valid input (len >= 2) the estimator returns a value and
\* never raises, the 2- and 3-sample inputs included.
C1_NeverRaises == est.kind # "raise"

\* C2 as stated: whatever the sign of x, the value the estimator returns
\* is >= 0.
C2_NonNegative == Returned(est) => est.num >= 0

\* C2 amended: when no x sample is negative (x[0] >= 0), a value the
\* estimator returns is >= 0, on the spectral path and on the fallback path.
C2_NonNegativeForNonNegativeX ==
    (Returned(est) /\ xvals[1] >= 0) => est.num >= 0

\* the fallback path found a minimum and returned 1/(2*x[first minimum]) > 0
\* on non-negative x
C2_Witness ==
    /\ Returned(est) /\ xvals[1] >= 0
    /\ fb # NoValue /\ Len(fb.peaks) > 0
    /\ est = Reciprocal(2 * xvals[fb.peaks[1]])
    /\ est.kind = "num" /\ est.num > 0

\* C4: for a constant signal of any valid length the estimator returns 0.
C4_ConstantGivesZero ==
    (est # NoValue /\ IsConstant(yvals)) => est = Val(0, 1)

\* C8: initial_guess yields exactly 10 vectors and then ends; the phases run
\* from -pi to pi, evenly spaced and increasing; amplitude, frequency and
\* offset are the stated values, the same in all 10 vectors, from a single
\* estimator call.
C8_TenVectors ==
    (gen.kind = "gen" /\ gen.pc \in {"done", "raised"}) =>
        /\ gen.pc = "done"
        /\ gen.calls = 1
        /\ Len(yielded) = 10
        /\ yielded[1][3] = PiTimes(-9, 9)
        /\ yielded[10][3] = PiTimes(9, 9)
        /\ \A i \in 1..9 :
              /\ yielded[i + 1][3].den = yielded[i][3].den
              /\ yielded[i + 1][3].num - yielded[i][3].num = 2
        /\ \A i \in 1..10 :
              /\ yielded[i][1] = yielded[1][1]
              /\ yielded[i][2] = yielded[1][2]
              /\ yielded[i][4] = yielded[1][4]
              /\ yielded[i][4] = mean(yvals)
              /\ yielded[i][2] = (IF est.kind = "num" /\ est.num <= 0
                                  THEN Val(0, 1) ELSE est)

\* C9: every yielded vector lies inside the bounds fit_boundary returns,
\* component by component; the frequency component is >= 0 even when the
\* estimator returned a negative value; fit_boundary returns the same four
\* (min, max) pairs, min <= max, whatever the samples are.
FixedBounds ==
    << <<[kind |-> "-inf"], Inf>>, <<Val(0, 1), Inf>>,
       <<PiTimes(-1, 1), PiTimes(1, 1)>>, <<[kind |-> "-inf"], Inf>> >>
C9_GuessWithinBounds ==
    /\ \A i \in 1..Len(yielded) : \A c \in 1..4 :
          /\ Leq(FixedBounds[c][1], yielded[i][c])
          /\ Leq(yielded[i][c], FixedBounds[c][2])
    /\ \A i \in 1..Len(yielded) :
          yielded[i][2].kind = "inf" \/ yielded[i][2].num >= 0
    /\ bnds # NoValue =>
          /\ bnds.b = FixedBounds
          /\ \A c \in 1..4 : Leq(bnds.b[c][1], bnds.b[c][2])

\* the estimator returned a negative value, the vectors carry frequency 0,
\* and the bounds have been fetched
C9_Witness ==
    /\ est.kind = "num" /\ est.num < 0
    /\ Len(yielded) = 10
    /\ yielded[10][2] = Val(0, 1)
    /\ bnds # NoValue

\* C10: in the fallback, for a signal of length N >= 4, at most 4 local
\* minima are found (two minima are more than N div 4 apart, no end point
\* qualifies), so the 'more than 4' rejection never triggers; the block
\* returns 0 exactly when no minimum is found and 1/(2*x[first minimum])
\* otherwise, the first minimum not being the first sample.
C10_AtMostFourMinima ==
    (fb # NoValue /\ Len(xvals) >= 4) =>
        LET n == Len(xvals)
            pk == fb.peaks
        IN  /\ Len(pk) <= 4
            /\ \A i \in 1..Len(pk) : pk[i] > 1 /\ pk[i] < n
            /\ \A i \in 1..(Len(pk) - 1) : pk[i + 1] - pk[i] > n \div 4
            /\ (fb.result = Val(0, 1)) <=> (Len(pk) = 0)
            /\ Len(pk) > 0 =>
                  LET v == 2 * xvals[pk[1]] IN
                  /\ v = 0 => fb.result.kind = "inf"
                  /\ v # 0 => /\ fb.result.kind = "num"
                              /\ fb.result.num * v = fb.result.den
                              /\ fb.result.den > 0

\* the fallback of a call found four minima, the first past the first
\* sample, and the call returned 1/(2*x[first minimum])
C10_Witness ==
    /\ fb # NoValue /\ Len(xvals) >= 4
    /\ Len(fb.peaks) = 4 /\ fb.peaks[1] > 1
    /\ fb.result.kind = "num" /\ fb.result.num # 0
    /\ est = fb.result

(***************************************************************************)
(* Properties of the Calibration Record (SpecRecord, SpecAlias).           *)
(***************************************************************************)
\* what Python's int() accepts among the keys and values the caller uses,
\* and the integer it gives
Coercible(p) ==
    p \in {PyInt(0), PyInt(5), PyStr(<<"0">>), PyStr(<<"1">>),
           PyStr(<<" ", "1", VerticalTab>>), PyStr(<<"1", "_", "3">>)}
Expected(p) ==
    IF p = PyInt(0) \/ p = PyStr(<<"0">>) THEN 0
    ELSE IF p = PyStr(<<"1">>) \/ p = PyStr(<<" ", "1", VerticalTab>>) THEN 1
    ELSE IF p = PyInt(5) THEN 5
    ELSE 13
ProvidedItems == args.register_map_items
MapProvided == args # NoValue /\ args.register_map # PyNone
AllCoercible ==
    \A j \in 1..Len(ProvidedItems) :
        Coercible(ProvidedItems[j][1]) /\ Coercible(ProvidedItems[j][2])
AllIntegers(items) ==
    \A i \in 1..Len(items) : items[i][1].t = "int" /\ items[i][2].t = "int"
ExportedMap == exports[1][7][2]
KeyOrder ==
    <<"name", "series", "x_values", "pulse_schedule_name", "exp_id",
      "qubits", "register_map">>

\* C3: after construction the record's field values never change: whatever
\* the caller does, every export returns the field values the first export
\* returned.
C3_Immutable == last = first

\* C5 as stated: for every provided register_map with coercible keys and
\* values (the empty one and one with colliding keys included), the exported
\* register_map is a mapping of integers to integers holding
\* int(k) -> int(v) for every provided (k, v).
C5_EveryEntryCoerced ==
    (Len(exports) > 0 /\ MapProvided /\ AllCoercible) =>
        /\ ExportedMap.t = "ref"
        /\ LET items == heap[ExportedMap.id].items IN
           /\ AllIntegers(items)
           /\ \A j \in 1..Len(ProvidedItems) : \E i \in 1..Len(items) :
                 items[i] = <<PyInt(Expected(ProvidedItems[j][1])),
                              PyInt(Expected(ProvidedItems[j][2]))>>

\* C5 amended: for a provided non-empty register_map with coercible keys
\* and values, the exported register_map is a mapping of integers to
\* integers whose keys are exactly the int(k), each once, and int(k) maps to
\* int(v') of the last provided entry whose key coerces to int(k) (so to
\* int(v) itself when no later key collides); a provided empty mapping is
\* exported as None.
C5_CoercedLastWins ==
    (Len(exports) > 0 /\ MapProvided /\ AllCoercible) =>
        IF ProvidedItems = <<>> THEN ExportedMap = PyNone
        ELSE /\ ExportedMap.t = "ref"
             /\ LET items == heap[ExportedMap.id].items
                    n == Len(ProvidedItems)
                    Key(j) == Expected(ProvidedItems[j][1])
                    LastOf(j) == CHOOSE l \in 1..n :
                                    /\ Key(l) = Key(j)
                                    /\ \A m \in (l + 1)..n : Key(m) # Key(j)
                IN  /\ AllIntegers(items)
                    /\ \A j \in 1..n : \E i \in 1..Len(items) :
                          items[i] = <<PyInt(Key(j)),
                                       PyInt(Expected(ProvidedItems[LastOf(j)][2]))>>
                    /\ \A i \in 1..Len(items) : \E j \in 1..n :
                          items[i][1] = PyInt(Key(j))
                    /\ \A i, k \in 1..Len(items) :
                          i # k => items[i][1] # items[k][1]

\* two provided keys coerce to the same integer and the export holds one
\* entry, with the later value
C5_Witness ==
    /\ Len(exports) > 0 /\ MapProvided
    /\ Len(ProvidedItems) = 2
    /\ ExportedMap.t = "ref"
    /\ Len(heap[ExportedMap.id].items) = 1
    /\ ProvidedItems[1][2] # ProvidedItems[2][2]

\* C6: construction raises exactly when some key or value of the provided
\* register_map cannot be coerced to an integer; then no record reaches the
\* caller; every other combination of arguments (all absent included) gives
\* a record holding the arguments.
C6_RaisesIffNotCoercible ==
    ctor # "idle" =>
        /\ (ctor = "raised") <=> (MapProvided /\ ~AllCoercible)
        /\ ctor = "raised" => (rec = NoValue /\ exports = <<>>)
        /\ ctor = "ok" =>
              /\ rec # NoValue
              /\ \A f \in {"name", "series", "x_values", "pulse_schedule_name",
                           "exp_id", "qubits"} : rec[f] = args[f]

\* the second entry of the provided mapping cannot be coerced, the first can:
\* the constructor raised and there is no record
C6_Witness ==
    /\ ctor = "raised" /\ rec = NoValue
    /\ Len(ProvidedItems) = 2
    /\ Coercible(ProvidedItems[1][1]) /\ Coercible(ProvidedItems[1][2])

\* C7: to_dict on an unmodified record: every call returns the same mapping,
\* with exactly the seven keys in the order (name, series, x_values,
\* pulse_schedule_name, exp_id, qubits, register_map), each value the stored
\* field value, and the record's fields are as construction left them.
C7_ExportIdempotent ==
    (nops = 0 /\ Len(exports) > 0) =>
        /\ \A i \in 1..Len(exports) :
              /\ Len(exports[i]) = 7
              /\ \A j \in 1..7 :
                    /\ exports[i][j][1] = KeyOrder[j]
                    /\ exports[i][j][2] =
                          (IF rec[KeyOrder[j]] = Unset THEN PyNone
                           ELSE rec[KeyOrder[j]])
              /\ exports[i] = exports[1]
        /\ last = first
        /\ \A f \in {"name", "series", "x_values", "pulse_schedule_name",
                     "exp_id", "qubits"} : rec[f] = args[f]
        /\ rec.register_map \in {Unset, PyRef(OwnMapId)}

\* two exports of a record whose fields are all set
C7_Witness ==
    /\ nops = 0 /\ Len(exports) = 2
    /\ \A j \in 1..7 : exports[2][j][2] # PyNone

====
